---- MODULE Spec2Model ----
(***************************************************************************)
(* Agentic execution core of Hey-work: Agent::run (src-tauri/src/agent.rs), *)
(* the stop command (src-tauri/src/main.rs) and the swarm scheduler         *)
(* (src-tauri/src/cognitive/agent_swarm.rs).                                *)
(*                                                                          *)
(* Agent::run is one async function; it is cut at its suspension points,    *)
(* where stop_agent (another thread, an atomic store) can interleave.       *)
(* The LLM, the actuators and the planner are the environment: their        *)
(* answers are drawn with \E from the outcomes the code distinguishes.      *)
(* The name and input of a ToolUse block are read by the code only when     *)
(* the block is dispatched (agent.rs:704), so they are drawn there.         *)
(***************************************************************************)
EXTENDS Integers, Sequences, FiniteSets, TLC

\* ---------------------------------------------------------------- bounds
\* agent.rs:567 sets 50; the loop bound is scaled down for checking
MAX_ITERATIONS == 2
\* longest assistant turn (content blocks) the LLM returns in the model
MaxBlocks == 1
\* longest plan the planner returns in the model (the prompt asks for 2-6)
MaxSub == 3
\* snapshots taken of the page in the model
MaxSnapshots == 2
\* most elements a snapshot assigns a uid to in the model
MaxNodes == 2
\* longest value typed into a form field in the model
MaxValueLen == 1
\* most elements handed to fill_form in the model
MaxElements == 2
\* usages recorded by the rate limiter in the model
MaxRecords == 2
\* the clock of the rate limiter advances MaxTicks times by TickSecs seconds
MaxTicks == 3
TickSecs == 30
\* messages of the list handed to snapshot compaction, and the lines of a
\* text of these messages, in the model
MaxMessages == 1
MaxLines == 2
\* agent.rs:1525 compacts a snapshot longer than 5000 bytes; the model
\* measures a text in lines and scales the threshold down
MinSnapshotLen == 1
\* agent.rs:276 lets the polling of a swarm task go on for 300 s, which is 600
\* polling periods of 500 ms (agent.rs:310); the model scales it down
PollTimeout == 2
\* most actions of a skill handed to execute_skill in the model
MaxActions == 2
\* memories stored, learned skills, and reuses recorded for one memory or one
\* learned skill, in the model
MaxMemories == 2
MaxLearned == 1
MaxUpdates == 2

\* ------------------------------------------------------ program constants
MAX_RETRIES == 5
max_retries == 3
max_parallel == 3
\* SwarmConfig::default (agent_swarm.rs:186-199), the only configuration the
\* program builds (agent_swarm.rs:260)
parallel_execution == TRUE

\* The planner's answers in the model include a plan of max_parallel + 1
\* steps without dependencies, so that a batch leaves a ready subtask behind:
\* the longest plan has MaxPlanLen steps.
MaxPlanLen == IF MaxSub > max_parallel + 1 THEN MaxSub ELSE max_parallel + 1
\* rate_limiter.rs: tokens per minute of the tiers, the safety margin in
\* percent (0.95), the retry limit, the window and the least sleep when
\* Limited, in seconds
BUILD_TIER_INPUT_TPM == 80000
BUILD_TIER_OUTPUT_TPM == 16000
SCALE_TIER_INPUT_TPM == 200000
SCALE_TIER_OUTPUT_TPM == 40000
SAFETY_MARGIN == 95
RL_MAX_RETRIES == 5
WINDOW_SECS == 60
LIMITED_MIN_WAIT_SECS == 5

\* the learning rates in tenths: alpha = 0.3 (memory.rs:394) and
\* alpha = 0.2 (skills.rs:443)
MEMORY_ALPHA == 3
SKILL_ALPHA == 2

BROWSER_TOOLS == {"see_page", "page_action", "browser_navigate"}
ToolNames == {"computer", "bash", "speak", "deep_research", "python", "other"} \cup BROWSER_TOOLS

is_browser_tool(name) == name \in BROWSER_TOOLS

VARIABLES
  running,          \* the process-wide AtomicBool shared by AppState and Agent
  pc,               \* position of Agent::run
  task,             \* the mode of this run ("none" until init_computer reads it)
  ret,              \* what run returned: "none" | "ok" | "err"
  messages,         \* Vec<Message> sent to the LLM
  response_content, \* content blocks of the assistant turn being dispatched
  tool_results,     \* Vec<ContentBlock> collected for the next user turn
  block_idx,        \* position of the for loop over response_content
  iteration,        \* agent loop counter
  retry_attempt,    \* rate-limit retries of the current LLM call
  in_flight,        \* the Actuator call in progress: "none" or the tool name
  emitted,          \* which of the events error, finished, stopped this run emitted
  saved,            \* number of messages in the persisted Conversation
  hist              \* history variables (see HistInit)

agent_vars == <<running, pc, task, ret, messages, response_content, tool_results,
                block_idx, iteration, retry_attempt, in_flight, emitted, saved>>

VARIABLES
  swarm_pc,         \* position of AgentSwarm::process_task
  task_status,      \* ComplexTask.status
  subtasks,         \* ComplexTask.subtasks
  batch,            \* subtask ids handed to execute_subtask in this iteration
  sw_hist           \* history variables of the swarm (see SwarmHistInit)

swarm_vars == <<swarm_pc, task_status, subtasks, batch, sw_hist>>

\* BrowserClient (src-tauri/src/browser.rs)
VARIABLES
  snapshot_id,          \* BrowserClient.snapshot_id
  uid_to_backend_node,  \* the uids of the map's keys
  page_commands,        \* commands the last operation sent to the page
  browser_last,         \* the last operation, its result and its history flags
  filling               \* the fill_form call in progress: its loop state

browser_vars == <<snapshot_id, uid_to_backend_node, page_commands, browser_last, filling>>

\* RateLimiter (src-tauri/src/rate_limiter.rs)
VARIABLES
  now,             \* Instant::now(), in seconds
  token_history,   \* VecDeque<TokenBucketEntry>
  tier,            \* RateLimitTier
  status,          \* RateLimitStatus
  totals,          \* <<total_input_tokens, total_output_tokens>>
  retry_state,     \* Option<RetryState>: 0 for None, or the state's attempt
  pending,         \* entries of record_usage calls that wait for the history lock
  recorded,        \* history: every entry pushed, in push order
  rl_ret,          \* the last accounting call that returned: name, time, value
  ewr              \* the execute_with_retry call: position, attempt, history

rate_vars == <<now, token_history, tier, status, totals, retry_state, pending,
               recorded, rl_ret, ewr>>

\* the message list of the agent loop as snapshot compaction sees it
\* (src-tauri/src/agent.rs: summarize_old_snapshots)
VARIABLES
  snap_messages,   \* the Vec<Message> that is compacted in place
  snap_hist        \* history: applications, the list before and after the first

\* MemorySystem (src-tauri/src/cognitive/memory.rs) and SkillLibrary
\* (src-tauri/src/cognitive/skills.rs)
VARIABLES
  memories,        \* MemorySystem.memories
  mem_hist,        \* history, per memory: the stored outcome and the reuses recorded
  skills           \* SkillLibrary: predefined_skills and skills (the learned ones)

learn_vars == <<memories, mem_hist, skills>>

pure_vars == <<snap_messages, snap_hist, learn_vars>>

\* the polling loop of Agent::run with its clock (src-tauri/src/agent.rs)
VARIABLE
  poll_elapsed     \* swarm_start.elapsed(), in polling periods of 500 ms

\* a run_agent command that arrives besides the one that started the run
\* (src-tauri/src/main.rs)
VARIABLE
  request          \* its position, and whether it arrived while run was in progress

\* SkillExecutor::execute_skill (src-tauri/src/cognitive/skill_executor.rs)
VARIABLE
  skill_run        \* the actions of the skill handed to it, and what it returned

other_vars == <<browser_vars, rate_vars, pure_vars, poll_elapsed, request, skill_run>>

vars == <<agent_vars, hist, swarm_vars, other_vars>>

\* ------------------------------------------------------------- messages
TextBlock == [type |-> "text", id |-> <<>>, text |-> "text"]
ToolUse(id) == [type |-> "tool_use", id |-> id, text |-> ""]
\* a tool the LLM provider runs itself (web search, web fetch)
ServerToolUse(id) == [type |-> "server_tool_use", id |-> id, text |-> ""]
\* text: "output" for whatever the tool produced (its result or its error text),
\* "stopped" for the synthetic result of a cancelled call
ToolResult(id, text) == [type |-> "tool_result", id |-> id, text |-> text]
Message(role, content) == [role |-> role, content |-> content]

RECURSIVE IdsOf(_, _)
\* the ids of the blocks of the given type, in document order
IdsOf(content, type) ==
  IF content = <<>> THEN <<>>
  ELSE LET rest == IdsOf(Tail(content), type)
       IN IF Head(content).type = type THEN <<Head(content).id>> \o rest ELSE rest

ToolUseIds(m) == IdsOf(m.content, "tool_use")
ToolResultIds(m) == IdsOf(m.content, "tool_result")

\* the block sequences the LLM can answer with: Text, ToolUse and
\* ServerToolUse blocks
Shapes == UNION {[1..n -> {"text", "tool_use", "server_tool_use"}] : n \in 0..MaxBlocks}

Content(shape, iter) ==
  [i \in 1..Len(shape) |->
     IF shape[i] = "text" THEN TextBlock
     ELSE IF shape[i] = "tool_use" THEN ToolUse(<<iter, i>>)
     ELSE ServerToolUse(<<iter, i>>)]

\* ------------------------------------------------------------------ Init
HistInit ==
  [ set_running   |-> FALSE,  \* run has executed running.store(true)
    stop_requested |-> FALSE, \* stop_agent has turned running from true to false
    stop_in_dispatch |-> FALSE, \* ... while the blocks of a turn were dispatched
    stop_in_swarm |-> FALSE,  \* ... while run was polling the submitted swarm task
    llm_called    |-> FALSE,  \* the agent loop has requested an assistant turn
    dispatched    |-> FALSE,  \* the agent loop has dispatched a ToolUse
    submitted     |-> FALSE,  \* the instruction was submitted to the swarm
    limit_reached |-> FALSE,  \* the while condition failed on iteration < MAX_ITERATIONS
                              \* with running still true
    stop_observed |-> FALSE,  \* the agent loop was left because it found the flag cleared
    skill_done    |-> FALSE,  \* run returned after a skill completed the instruction
    sent          |-> <<>>,   \* the messages of the first request of the current turn
    api_error     |-> [kind |-> "none", retries |-> 0] ]
                              \* the API error that ended the loop: "rate_limit" or
                              \* "other", and the retries made before it

SwarmHistInit ==
  [ failures |-> [s \in 1..MaxPlanLen |-> 0],  \* executions that ended in error/timeout
    requeues |-> [s \in 1..MaxPlanLen |-> 0],  \* times the subtask was re-queued Ready
    waited   |-> [s \in 1..MaxPlanLen |-> 0],  \* consecutive scheduler ticks begun with
                                            \* the subtask Blocked, all deps Completed
    answer   |-> <<>>,                      \* the planner's answer the plan was built from
    fallback |-> FALSE,                     \* the plan is the canned one of a parse failure
    task_completed |-> "none" ]             \* success of the TaskCompleted event sent:
                                            \* "none" | "true" | "false"

AgentInit ==
  /\ running = FALSE
  /\ pc = "idle"
  /\ task = [mode |-> "none"]
  /\ ret = "none"
  /\ messages = <<>>
  /\ response_content = <<>>
  /\ tool_results = <<>>
  /\ block_idx = 0
  /\ iteration = 0
  /\ retry_attempt = 0
  /\ in_flight = "none"
  /\ emitted = {}
  /\ saved = 0
  /\ hist = HistInit

SwarmInit ==
  /\ swarm_pc = "none"
  /\ task_status = "None"
  /\ subtasks = <<>>
  /\ batch = {}
  /\ sw_hist = SwarmHistInit

\* no fill_form call is in progress
NotFilling == [active |-> FALSE, filled |-> 0, seen_stale |-> FALSE, seen_other |-> FALSE]

\* browser.rs:59-117  a connected client: no snapshot taken yet
BrowserInit ==
  /\ snapshot_id = 0
  /\ uid_to_backend_node = {}
  /\ page_commands = 0
  /\ browser_last = [op |-> "none", result |-> "none", stale_arg |-> FALSE]
  /\ filling = NotFilling

\* no execute_with_retry call was made yet
EwrIdle ==
  [ pc |-> "idle", attempt |-> 0, wake_at |-> 0, ret |-> "none",
    invocations |-> 0,          \* times the operation was invoked by this call
    backoffs |-> 0,             \* backoff sleeps of this call
    only_rate_limit |-> TRUE ]  \* every failure of this call was a rate-limit error

\* rate_limiter.rs:83-92  RateLimiter::new
RateInit ==
  /\ now = 0
  /\ token_history = <<>>
  /\ tier = "Build"
  /\ status = "Safe"
  /\ totals = <<0, 0>>
  /\ retry_state = 0
  /\ pending = {}
  /\ recorded = <<>>
  /\ rl_ret = [op |-> "none", at |-> 0, value |-> <<0, 0>>]
  /\ ewr = EwrIdle

\* no list was handed to snapshot compaction yet
SnapInit ==
  /\ snap_messages = <<>>
  /\ snap_hist = [applied |-> 0, original |-> <<>>, after_first |-> <<>>]

RECURSIVE Pow10(_)
Pow10(n) == IF n = 0 THEN 1 ELSE 10 * Pow10(n - 1)

\* A success rate is an f32 between 0.0 and 1.0.  The model keeps it exactly,
\* as a whole number of units of which RateOne make 1.0: every rate the model
\* reaches is a multiple of the unit.  (f32 rounds each result by less than
\* 1e-7; 1.0 * 0.7 + 1.0 * 0.3 is 1.0 in f32 too.)
RateOne == Pow10(MaxUpdates + 1)

Skill(success_rate, total_uses) == [success_rate |-> success_rate, total_uses |-> total_uses]

\* skills.rs:66-300  the success rates of the six predefined skills, in percent
PredefinedRates == <<100, 99, 95, 98, 99, 92>>

\* memory.rs and skills.rs: the systems as constructed
LearnInit ==
  /\ memories = <<>>
  /\ mem_hist = <<>>
  /\ skills = [predefined |-> [k \in 1..Len(PredefinedRates) |->
                                Skill((PredefinedRates[k] * RateOne) \div 100, 0)],
               learned |-> <<>>]

PureInit == SnapInit /\ LearnInit

OtherInit ==
  /\ BrowserInit /\ RateInit /\ PureInit
  /\ poll_elapsed = 0
  /\ request = [pc |-> "none", during_run |-> FALSE]
  /\ skill_run = [actions |-> <<>>, success |-> "none"]

Init == AgentInit /\ SwarmInit /\ OtherInit

Emit(kinds) == emitted' = emitted \cup kinds

\* ------------------------------------------------- main.rs: the commands
\* run_agent: rejected while is_running(), otherwise run is spawned
run_agent ==
  /\ pc = "idle"
  /\ ~running
  /\ pc' = "start"
  /\ UNCHANGED <<running, task, ret, messages, response_content, tool_results, block_idx,
                 iteration, retry_attempt, in_flight, emitted, saved, hist, swarm_vars, other_vars>>

\* stop_agent: running.store(false).  With the flag already false the store
\* changes nothing, so the action is enabled only when the flag is true.
stop_agent ==
  /\ running
  /\ running' = FALSE
  /\ hist' = [hist EXCEPT !.stop_requested = TRUE,
                          !.stop_in_dispatch = @ \/ pc \in {"dispatch", "in_flight"},
                          !.stop_in_swarm = @ \/ pc = "swarm_poll"]
  /\ UNCHANGED <<pc, task, ret, messages, response_content, tool_results, block_idx,
                 iteration, retry_attempt, in_flight, emitted, saved, swarm_vars, other_vars>>

\* ------------------------------------------- Agent::run up to the routing
Return(r) == pc' = "returned" /\ ret' = r

\* permission check and the skill fast path, before running is set
run_start ==
  /\ pc = "start"
  /\ \/ \* permissions missing (macOS): error event, Err
        /\ Emit({"error"})
        /\ Return("err")
        /\ UNCHANGED hist
     \/ \* agent.rs:185-216  is_simple_quick_task and try_execute_matching_skill
        \* (skills.rs:696-725, a &self method) ran a predefined skill with
        \* success: return Ok(())
        /\ Return("ok")
        /\ hist' = [hist EXCEPT !.skill_done = TRUE]
        /\ UNCHANGED emitted
     \/ \* not simple-quick, no matching skill, or the skill failed
        /\ pc' = "set_running"
        /\ UNCHANGED <<ret, emitted, hist>>
  /\ UNCHANGED <<running, task, messages, response_content, tool_results, block_idx,
                 iteration, retry_attempt, in_flight, saved, swarm_vars, other_vars>>

\* agent.rs:226-229  self.running.store(true), then is_complex_task
set_running ==
  /\ pc = "set_running"
  /\ running' = TRUE
  /\ hist' = [hist EXCEPT !.set_running = TRUE]
  /\ \E is_complex \in BOOLEAN : pc' = IF is_complex THEN "submit" ELSE "init_computer"
  /\ UNCHANGED <<task, ret, messages, response_content, tool_results, block_idx,
                 iteration, retry_attempt, in_flight, emitted, saved, swarm_vars, other_vars>>

\* computer control initialisation, then the second running.store(true).
\* The mode argument of run is first read after it (agent.rs:344), so it is
\* drawn here.
init_computer ==
  /\ pc = "init_computer"
  /\ \/ \* ComputerControl::new() failed: error event, return Err(e.into())
        /\ Emit({"error"})
        /\ Return("err")
        /\ UNCHANGED <<running, task>>
     \/ /\ running' = TRUE
        /\ \E mode \in {"computer", "browser"} : task' = [mode |-> mode]
        /\ pc' = "connect_browser"
        /\ UNCHANGED <<ret, emitted>>
  /\ UNCHANGED <<messages, response_content, tool_results, block_idx,
                 iteration, retry_attempt, in_flight, saved, hist, swarm_vars, other_vars>>

\* browser connection (browser mode), conversation set-up, first user message
connect_browser ==
  /\ pc = "connect_browser"
  /\ \/ \* connect (or the restart of Chrome) failed
        /\ task.mode = "browser"
        /\ Emit({"error"})
        /\ running' = FALSE
        /\ Return("err")
        /\ UNCHANGED messages
     \/ /\ UNCHANGED emitted
        /\ messages' = <<Message("user", <<TextBlock>>)>>
        /\ pc' = "loop_head"
        /\ UNCHANGED <<running, ret>>
  /\ UNCHANGED <<task, response_content, tool_results, block_idx,
                 iteration, retry_attempt, in_flight, saved, hist, swarm_vars, other_vars>>

\* ------------------------------------------------------- the agent loop
\* loop_head with <= in place of < in the while condition
loop_head_le ==
  /\ pc = "loop_head"
  /\ IF running /\ iteration <= MAX_ITERATIONS
     THEN /\ iteration' = iteration + 1
          /\ retry_attempt' = 0
          /\ pc' = "llm_call"
          /\ hist' = [hist EXCEPT !.llm_called = TRUE, !.sent = messages]
     ELSE /\ pc' = "exit"
          /\ hist' = [hist EXCEPT !.limit_reached = running, !.stop_observed = ~running]
          /\ UNCHANGED <<iteration, retry_attempt>>
  /\ UNCHANGED <<running, task, ret, messages, response_content, tool_results,
                 block_idx, in_flight, emitted, saved, swarm_vars, other_vars>>

\* agent.rs:571  while running && iteration < MAX_ITERATIONS; then the
\* streaming request is issued
loop_head ==
  /\ pc = "loop_head"
  /\ IF running /\ iteration < MAX_ITERATIONS
     THEN /\ iteration' = iteration + 1
          /\ retry_attempt' = 0
          /\ pc' = "llm_call"
          /\ hist' = [hist EXCEPT !.llm_called = TRUE, !.sent = messages]
     ELSE /\ pc' = "exit"
          /\ hist' = [hist EXCEPT !.limit_reached = running, !.stop_observed = ~running]
          /\ UNCHANGED <<iteration, retry_attempt>>
  /\ UNCHANGED <<running, task, ret, messages, response_content, tool_results,
                 block_idx, in_flight, emitted, saved, swarm_vars, other_vars>>

\* the retry test letting one more retry through
retries_api_error_le(is_rate_limit, attempt) == is_rate_limit /\ attempt <= MAX_RETRIES

\* agent.rs:625  is_rate_limit && retry_attempt < MAX_RETRIES
retries_api_error(is_rate_limit, attempt) == is_rate_limit /\ attempt < MAX_RETRIES

\* agent.rs:614-664  the streaming call returns; rate-limit errors are retried
llm_call ==
  /\ pc = "llm_call"
  /\ \/ \E shape \in Shapes :
          /\ response_content' = Content(shape, iteration)
          /\ messages' = Append(messages, Message("assistant", response_content'))
          /\ tool_results' = <<>>
          /\ block_idx' = 1
          /\ pc' = "dispatch"
          /\ retry_attempt' = 0   \* the counter's scope ends with the call
          /\ UNCHANGED <<emitted, hist>>
     \/ \E is_rate_limit \in BOOLEAN :
          IF retries_api_error(is_rate_limit, retry_attempt)
          THEN /\ retry_attempt' = retry_attempt + 1
               /\ UNCHANGED <<emitted, pc, messages, response_content, tool_results,
                              block_idx, hist>>
          ELSE /\ Emit({"error"})
               /\ pc' = "exit"
               /\ retry_attempt' = 0
               /\ hist' = [hist EXCEPT !.api_error =
                             [kind |-> IF is_rate_limit THEN "rate_limit" ELSE "other",
                              retries |-> retry_attempt]]
               /\ UNCHANGED <<messages, response_content, tool_results, block_idx>>
  /\ UNCHANGED <<running, task, ret, iteration, in_flight, saved, swarm_vars, other_vars>>

\* the input shapes the dispatcher distinguishes for a tool
Inputs(name) ==
  IF name = "bash" THEN {"command", "restart", "neither"}
  ELSE IF name \in {"computer", "speak", "deep_research", "python"}
       THEN {"valid", "invalid"}
       ELSE {"valid"}

PushResult(id, text) == tool_results' = Append(tool_results, ToolResult(id, text))

\* agent.rs:704-1097  one ToolUse block, up to the start of its Actuator call
DispatchToolUse(id, name, input) ==
  IF name = "computer" THEN
       IF input = "invalid"
       THEN \* parse failure: error event, continue
            /\ Emit({"error"})
            /\ block_idx' = block_idx + 1
            /\ UNCHANGED <<pc, in_flight, tool_results>>
       ELSE /\ UNCHANGED emitted
            /\ in_flight' = name /\ pc' = "in_flight"
            /\ UNCHANGED <<block_idx, tool_results>>
  ELSE IF name = "bash" THEN
       IF input = "restart"
       THEN /\ UNCHANGED emitted
            /\ PushResult(id, "output")
            /\ block_idx' = block_idx + 1
            /\ UNCHANGED <<pc, in_flight>>
       ELSE IF input = "command"
       THEN /\ UNCHANGED emitted
            /\ in_flight' = name /\ pc' = "in_flight"
            /\ UNCHANGED <<block_idx, tool_results>>
       ELSE \* neither command nor restart: nothing is done
            /\ block_idx' = block_idx + 1
            /\ UNCHANGED <<pc, in_flight, tool_results, emitted>>
  ELSE IF is_browser_tool(name) /\ task.mode = "browser" THEN
       /\ UNCHANGED emitted
       /\ in_flight' = name /\ pc' = "in_flight"
       /\ UNCHANGED <<block_idx, tool_results>>
  ELSE IF name \in {"speak", "deep_research", "python"} THEN
       IF input = "valid"
       THEN /\ UNCHANGED emitted
            /\ in_flight' = name /\ pc' = "in_flight"
            /\ UNCHANGED <<block_idx, tool_results>>
       ELSE \* the expected field is missing: nothing is done
            /\ block_idx' = block_idx + 1
            /\ UNCHANGED <<pc, in_flight, tool_results, emitted>>
  ELSE \* unknown tool: an error result
       /\ PushResult(id, "output")
       /\ block_idx' = block_idx + 1
       /\ UNCHANGED <<pc, in_flight, emitted>>

\* agent.rs:682-1121  one step of the for loop over response_content
dispatch_block ==
  /\ pc = "dispatch"
  /\ IF block_idx > Len(response_content) \/ ~running
     THEN \* end of the blocks, or break on the cleared flag
          /\ pc' = "after_blocks"
          /\ UNCHANGED <<block_idx, in_flight, tool_results, emitted, hist>>
     ELSE LET block == response_content[block_idx] IN
          IF block.type \in {"text", "server_tool_use"}
          THEN \* shown to the UI only
               /\ UNCHANGED emitted
               /\ block_idx' = block_idx + 1
               /\ UNCHANGED <<pc, in_flight, tool_results, hist>>
          ELSE /\ \E name \in ToolNames : \E input \in Inputs(name) :
                    DispatchToolUse(block.id, name, input)
               /\ hist' = [hist EXCEPT !.dispatched = TRUE]
  /\ UNCHANGED <<running, task, ret, messages, response_content, iteration,
                 retry_attempt, saved, swarm_vars, other_vars>>

\* how the Actuator call in flight can end
Outcomes(name) ==
  IF name = "computer" THEN {"ok", "action_err", "join_err", "screenshot_err"}
  ELSE IF is_browser_tool(name) THEN {"ok", "error", "stopped"}
  ELSE {"ok", "error"}

\* the Actuator call in flight ends: its result is pushed, or `?` returns the
\* error from run, or the cancellation poll of a browser tool wins the race
complete_call ==
  /\ pc = "in_flight"
  /\ \E outcome \in Outcomes(in_flight) :
       LET id == response_content[block_idx].id IN
       IF outcome \in {"join_err", "screenshot_err"}
       THEN /\ Return("err")
            /\ UNCHANGED <<tool_results, block_idx, emitted>>
       ELSE IF outcome = "stopped"
       THEN \* cancel_check saw the cleared flag: no result, break
            /\ ~running
            /\ pc' = "after_blocks"
            /\ UNCHANGED <<ret, tool_results, block_idx, emitted>>
       ELSE \* Ok and Err both become a ToolResult carrying the text
            /\ PushResult(id, "output")
            /\ UNCHANGED emitted
            /\ block_idx' = block_idx + 1
            /\ pc' = "dispatch"
            /\ UNCHANGED ret
  /\ in_flight' = "none"
  /\ UNCHANGED <<running, task, messages, response_content, iteration,
                 retry_attempt, saved, hist, swarm_vars, other_vars>>

has_tool_calls ==
  \E i \in 1..Len(response_content) :
     response_content[i].type \in {"tool_use", "server_tool_use"}

\* agent.rs:1123-1192  after the blocks of the turn
after_blocks ==
  /\ pc = "after_blocks"
  /\ IF ~running
     THEN /\ Emit({"finished"})
          /\ pc' = "exit"
          /\ hist' = [hist EXCEPT !.stop_observed = TRUE]
          /\ UNCHANGED <<messages, saved>>
     ELSE IF ~has_tool_calls
     THEN /\ Emit({"finished"})
          /\ pc' = "exit"
          /\ UNCHANGED <<messages, saved, hist>>
     ELSE IF tool_results = <<>>
     THEN \* tools were called but no result was captured
          /\ messages' = Append(messages, Message("user", <<TextBlock>>))
          /\ pc' = "loop_head"
          /\ UNCHANGED <<emitted, saved, hist>>
     ELSE /\ messages' = Append(messages, Message("user", tool_results))
          /\ saved' = Len(messages')
          /\ pc' = "loop_head"
          /\ UNCHANGED <<emitted, hist>>
  /\ UNCHANGED <<running, task, ret, response_content, tool_results, block_idx,
                 iteration, retry_attempt, in_flight, swarm_vars, other_vars>>

\* agent.rs:1195-1216  running.store(false), final save, stopped, Ok(())
run_exit ==
  /\ pc = "exit"
  /\ running' = FALSE
  /\ saved' = Len(messages)
  /\ Emit({"stopped"})
  /\ Return("ok")
  /\ UNCHANGED <<task, messages, response_content, tool_results, block_idx,
                 iteration, retry_attempt, in_flight, hist, swarm_vars, other_vars>>

\* ------------------------------------------------- the swarm path of run
\* after_swarm without the return: run goes on to the single-agent set-up
after_swarm_falls_through(kinds) ==
  /\ running' = FALSE
  /\ Emit(kinds \cup {"finished", "stopped"})
  /\ pc' = "init_computer"
  /\ ret' = ret

\* the code after the polling loop, agent.rs:314-319
after_swarm(kinds) ==
  /\ running' = FALSE
  /\ Emit(kinds \cup {"finished", "stopped"})
  /\ Return("ok")

\* agent.rs:231-273 with AgentSwarm::submit_task: the swarm is initialised if
\* needed (run holds an api key, so it always is), the task is inserted as
\* Pending and process_task is spawned
submit_task ==
  /\ pc = "submit"
  /\ task_status' = "Pending"
  /\ subtasks' = <<>>
  /\ swarm_pc' = "plan"
  /\ hist' = [hist EXCEPT !.submitted = TRUE]
  /\ pc' = "swarm_poll"
  /\ UNCHANGED <<running, task, ret, messages, response_content, tool_results,
                 block_idx, iteration, retry_attempt, in_flight, emitted, saved,
                 batch, sw_hist, other_vars>>

\* agent.rs:278-312  one round of the polling loop that ends it; a round that
\* only sleeps changes nothing
swarm_poll ==
  /\ pc = "swarm_poll"
  /\ IF ~running
     THEN after_swarm({})
     ELSE \/ \* swarm_start.elapsed() > swarm_timeout
             after_swarm({"error"})
          \/ /\ task_status \in {"Completed", "Failed"}
             /\ after_swarm({})
  /\ UNCHANGED <<task, messages, response_content, tool_results, block_idx,
                 iteration, retry_attempt, in_flight, saved, hist, swarm_vars, other_vars>>

\* ------------------------------------------- the polling loop with its clock
\* Time passes in the sleep of a round only: the loads, the lock and the
\* emits of a round take none.

\* the ceiling checked one period late
poll_timed_out_late(elapsed) == elapsed > PollTimeout + 1

\* agent.rs:283  swarm_start.elapsed() > swarm_timeout
poll_timed_out(elapsed) == elapsed > PollTimeout

\* agent.rs:278-319  one round of the polling loop: it ends the loop and run
\* returns, or it sleeps for one period
poll_round ==
  /\ pc = "swarm_poll"
  /\ IF ~running
     THEN after_swarm({}) /\ UNCHANGED poll_elapsed
     ELSE IF poll_timed_out(poll_elapsed)
     THEN after_swarm({"error"}) /\ UNCHANGED poll_elapsed
     ELSE IF task_status \in {"Completed", "Failed"}
     THEN after_swarm({}) /\ UNCHANGED poll_elapsed
     ELSE /\ poll_elapsed' = poll_elapsed + 1
          /\ UNCHANGED <<running, pc, ret, emitted>>
  /\ UNCHANGED <<task, messages, response_content, tool_results, block_idx,
                 iteration, retry_attempt, in_flight, saved, hist, swarm_vars,
                 browser_vars, rate_vars, pure_vars, request, skill_run>>

\* agent_swarm.rs:326-360  process_task as the polling loop sees it: the
\* status of the task becomes Completed or Failed at some time, or never
process_task ==
  /\ swarm_pc = "plan"
  /\ \E final \in {"Completed", "Failed"} : task_status' = final
  /\ swarm_pc' = "done"
  /\ UNCHANGED <<agent_vars, hist, other_vars, subtasks, batch, sw_hist>>

PollNext ==
  \/ run_agent \/ stop_agent \/ run_start \/ set_running \/ init_computer
  \/ connect_browser \/ loop_head \/ llm_call \/ dispatch_block \/ complete_call
  \/ after_blocks \/ run_exit \/ submit_task \/ poll_round \/ process_task

SpecPoll == Init /\ [][PollNext]_vars

\* ------------------------------------------- a further run_agent command
\* The task that run_agent spawns locks the agent (a tokio Mutex) and holds
\* the guard until run has returned (main.rs:342-348); the command itself
\* locks the agent to read is_running (main.rs:333-339).

\* the guard of the spawned task is held
agent_locked == pc \notin {"idle", "returned"}

\* main.rs:334-336  is_running(): Err("Agent is already running"), else the
\* command goes on to spawn run
admission == IF running THEN "rejected" ELSE "accepted"

\* main.rs:333  agent.lock().await: the command has the lock at once when it
\* is free, and waits for it otherwise
run_agent_request ==
  /\ request.pc = "none"
  /\ request' = [pc |-> IF agent_locked THEN "waiting" ELSE admission,
                 during_run |-> agent_locked]
  /\ UNCHANGED <<agent_vars, hist, swarm_vars, browser_vars, rate_vars, pure_vars,
                 poll_elapsed, skill_run>>

\* the waiting command gets the lock when run has returned
run_agent_admitted ==
  /\ request.pc = "waiting"
  /\ ~agent_locked
  /\ request' = [request EXCEPT !.pc = admission]
  /\ UNCHANGED <<agent_vars, hist, swarm_vars, browser_vars, rate_vars, pure_vars,
                 poll_elapsed, skill_run>>

CommandNext == PollNext \/ run_agent_request \/ run_agent_admitted

SpecCommand == Init /\ [][CommandNext]_vars

\* ------------------------------------------------- SkillExecutor
\* What execute_action returns: Ok with success true ("ok"), Ok with success
\* false ("fail"), or Err ("err").
ActionOutcomes == {"ok", "fail", "err"}

\* An ActionTemplate as execute_skill reads it: whether its condition, if
\* any, evaluates to true, the outcome of its action_type, and the outcome
\* of its fallback ("none" without one)
ActionTemplate(condition_met, primary, fallback) ==
  [condition_met |-> condition_met, primary |-> primary, fallback |-> fallback]

ActionTemplates ==
  {ActionTemplate(c, p, f) :
     c \in BOOLEAN, p \in ActionOutcomes, f \in ActionOutcomes \cup {"none"}}

\* skill_executor.rs:74-91  last_result.success after an action that
\* returned Ok: the primary's, or the fallback's when the primary failed and
\* the fallback returned Ok
action_success(a) ==
  IF a.primary = "fail" /\ a.fallback \in {"ok", "fail"}
  THEN a.fallback = "ok"
  ELSE a.primary = "ok"

\* skill_executor.rs:60-103  the loop over skill.actions from action i on,
\* last being last_result.success
RECURSIVE run_actions(_, _, _)
run_actions(actions, i, last) ==
  IF i > Len(actions) THEN last
  ELSE IF ~actions[i].condition_met THEN run_actions(actions, i + 1, last)
  ELSE IF actions[i].primary = "err" THEN FALSE
  ELSE run_actions(actions, i + 1, action_success(actions[i]))

\* skill_executor.rs:47-107
execute_skill(actions) == run_actions(actions, 1, TRUE)

\* a skill is put together, action by action
skill_push_action ==
  /\ skill_run.success = "none"
  /\ Len(skill_run.actions) < MaxActions
  /\ \E a \in ActionTemplates :
       skill_run' = [skill_run EXCEPT !.actions = Append(@, a)]
  /\ UNCHANGED <<agent_vars, hist, swarm_vars, browser_vars, rate_vars, pure_vars,
                 poll_elapsed, request>>

\* execute_skill is called on it and returns
skill_execute ==
  /\ skill_run.success = "none"
  /\ skill_run' = [skill_run EXCEPT !.success =
                     IF execute_skill(skill_run.actions) THEN "true" ELSE "false"]
  /\ UNCHANGED <<agent_vars, hist, swarm_vars, browser_vars, rate_vars, pure_vars,
                 poll_elapsed, request>>

SkillNext == skill_push_action \/ skill_execute

SpecSkill == Init /\ [][SkillNext]_vars

\* ------------------------------------------------------ the swarm scheduler
\* A dependency is a string of the planner's answer and a subtask id is a
\* string too: ids are 1..n here, and 0 is a string that is no subtask's id.
SubTask(id, deps) ==
  [ id |-> id,
    dependencies |-> deps,
    status |-> IF deps = {} THEN "Ready" ELSE "Blocked",
    result |-> "none",
    retry_count |-> 0,
    max_retries |-> max_retries ]

\* agent_swarm.rs:387-421
create_execution_plan(steps) == [i \in 1..Len(steps) |-> SubTask(i, steps[i])]

\* the dependency lists the planner gives step i in the model: none, an id
\* that names no subtask, the previous step, all earlier steps
StepDeps(i) ==
  {{}, {0}} \cup (IF i > 1 THEN {{i - 1}, 1..(i - 1)} ELSE {})

\* the plans of up to MaxSub steps with these dependency lists
Plans ==
  UNION {{p \in [1..n -> UNION {StepDeps(i) : i \in 1..n}] :
             \A i \in 1..n : p[i] \in StepDeps(i)}
         : n \in 1..MaxSub}

\* An element of a step's "depends_on" array in the planner's JSON answer: a
\* JSON string, or a JSON number (the index of a step, counted from 0).
Str(d) == [kind |-> "string", value |-> d]
Num(k) == [kind |-> "number", value |-> k]

\* the answer in which every step but the first depends on the step before
\* it, named by its index
IndexChain(n) == [i \in 1..n |-> IF i = 1 THEN {} ELSE {Num(i - 2)}]

\* the planner's answers in the model: the plans above with their
\* dependencies given as strings, the chains by index, and the plan of
\* max_parallel + 1 steps without dependencies.  The canned plan of a parse failure
\* (three steps, no dependencies) parses like one of the first.
Answers ==
  {[i \in 1..Len(p) |-> {Str(d) : d \in p[i]}] : p \in Plans}
  \cup {IndexChain(n) : n \in 2..MaxSub}
  \cup {[i \in 1..(max_parallel + 1) |-> {}]}

\* agent_swarm.rs:504-507  filter_map(|v| v.as_str()): an element that is
\* no JSON string is dropped
parse_depends_on(raw) == {v.value : v \in {w \in raw : w.kind = "string"}}

\* agent_swarm.rs:424-563  the dependency lists of the steps of the answer
analyze_task_complexity(answer) ==
  [i \in 1..Len(answer) |-> parse_depends_on(answer[i])]

\* agent_swarm.rs:535-562  the fallback of analyze_task_complexity: observe
\* state, execute, verify, each with dependencies: vec![]
CannedPlan == <<{}, {}, {}>>

Ids == 1..Len(subtasks)

\* agent_swarm.rs:363-384  the plan is built from the planner's answer, or
\* from the canned plan when the call failed or the answer did not parse
plan_task ==
  /\ swarm_pc = "plan"
  /\ \/ \E answer \in Answers :
          /\ subtasks' = create_execution_plan(analyze_task_complexity(answer))
          /\ sw_hist' = [sw_hist EXCEPT !.answer = answer]
     \/ /\ subtasks' = create_execution_plan(CannedPlan)
        /\ sw_hist' = [sw_hist EXCEPT !.fallback = TRUE]
  /\ task_status' = "Executing"
  /\ swarm_pc' = "head"
  /\ UNCHANGED <<agent_vars, hist, other_vars, batch>>

AllDepsCompleted(sts, s) ==
  \A dep \in sts[s].dependencies :
     \E c \in 1..Len(sts) : sts[c].id = dep /\ sts[c].status = "Completed"

\* update_blocked_tasks with any() in place of all()
update_blocked_tasks_any(sts) ==
  [s \in 1..Len(sts) |->
     IF /\ sts[s].status = "Blocked"
        /\ \E dep \in sts[s].dependencies :
              \E c \in 1..Len(sts) : sts[c].id = dep /\ sts[c].status = "Completed"
     THEN [sts[s] EXCEPT !.status = "Ready"]
     ELSE sts[s]]

\* agent_swarm.rs:1336-1356
update_blocked_tasks(sts) ==
  [s \in 1..Len(sts) |->
     IF sts[s].status = "Blocked" /\ AllDepsCompleted(sts, s)
     THEN [sts[s] EXCEPT !.status = "Ready"]
     ELSE sts[s]]

ReadyIds == {s \in Ids : subtasks[s].status = "Ready"}

\* take(max_parallel) letting one more through
FirstN_one_more(S, n) == {s \in S : Cardinality({t \in S : t < s}) <= n}

\* the first n elements of a set of ids, in plan order
FirstN(S, n) == {s \in S : Cardinality({t \in S : t < s}) < n}

\* agent_swarm.rs:567-628  one iteration of the execute loop, up to the
\* choice of the ready subtasks it runs: the first max_parallel of them,
\* spawned together, or all of them, one after the other (start_subtask)
execute_task ==
  /\ swarm_pc = "head"
  /\ sw_hist' = [sw_hist EXCEPT !.waited =
        [s \in 1..MaxPlanLen |->
           IF s \in Ids /\ subtasks[s].status = "Blocked" /\ AllDepsCompleted(subtasks, s)
           THEN @[s] + 1 ELSE 0]]
  /\ IF ReadyIds = {}
     THEN IF \A s \in Ids : subtasks[s].status \in {"Completed", "Failed"}
          THEN /\ swarm_pc' = "critic"
               /\ UNCHANGED <<subtasks, batch>>
          ELSE /\ subtasks' = update_blocked_tasks(subtasks)
               /\ UNCHANGED <<swarm_pc, batch>>
     ELSE /\ batch' = IF parallel_execution /\ Cardinality(ReadyIds) > 1
                       THEN FirstN(ReadyIds, max_parallel)
                       ELSE ReadyIds
          /\ swarm_pc' = "batch"
          /\ UNCHANGED subtasks
  /\ UNCHANGED <<agent_vars, hist, other_vars, task_status>>

\* agent_swarm.rs:633-660  execute_subtask marks the subtask Executing.
\* The handles of a batch of several run together; the sequential branch
\* (agent_swarm.rs:622-627), which parallel_execution leaves only batches of
\* one, awaits each execute_subtask before the next.
start_subtask ==
  /\ swarm_pc = "batch"
  /\ \E s \in batch :
       /\ subtasks[s].status = "Ready"
       /\ parallel_execution \/ \A t \in Ids : subtasks[t].status # "Executing"
       /\ subtasks' = [subtasks EXCEPT ![s].status = "Executing"]
  /\ UNCHANGED <<agent_vars, hist, other_vars, swarm_pc, task_status, batch, sw_hist>>

auto_retry == TRUE

\* should_retry with <= in place of <
should_retry_le(st) == st.retry_count <= st.max_retries /\ auto_retry

\* agent_swarm.rs:1061-1072
should_retry(st) == st.retry_count < st.max_retries /\ auto_retry

\* handle_subtask_error counting the failed attempt in both branches
handle_subtask_error_counts_always(st) ==
  IF should_retry(st)
  THEN [st EXCEPT !.retry_count = @ + 1, !.status = "Ready"]
  ELSE [st EXCEPT !.retry_count = @ + 1, !.status = "Failed", !.result = "failure"]

\* agent_swarm.rs:1060-1113
handle_subtask_error(st) ==
  IF should_retry(st)
  THEN [st EXCEPT !.retry_count = @ + 1, !.status = "Ready"]
  ELSE [st EXCEPT !.status = "Failed", !.result = "failure"]

\* agent_swarm.rs:662-705  the executor returns (or the timeout fires); the
\* loop goes on when every spawned execute_subtask has returned.
\* verify_subtask only stores verification_result, which is not modelled.
finish_subtask ==
  /\ swarm_pc = "batch"
  /\ \E s \in batch :
       /\ subtasks[s].status = "Executing"
       /\ \E outcome \in {"success", "failure", "err", "timeout"} :
            IF outcome \in {"success", "failure"}
            THEN \* Ok(task_result), whatever task_result.success is
                 /\ subtasks' = [subtasks EXCEPT ![s].status = "Completed",
                                                 ![s].result = outcome]
                 /\ UNCHANGED sw_hist
            ELSE /\ subtasks' = [subtasks EXCEPT ![s] = handle_subtask_error(@)]
                 /\ sw_hist' = [sw_hist EXCEPT
                      !.failures[s] = @ + 1,
                      !.requeues[s] = IF should_retry(subtasks[s]) THEN @ + 1 ELSE @]
       /\ batch' = batch \ {s}
       /\ swarm_pc' = IF batch' = {} THEN "head" ELSE "batch"
  /\ UNCHANGED <<agent_vars, hist, other_vars, task_status>>

\* finish_task with any() in place of all()
finish_task_any ==
  /\ swarm_pc = "critic"
  /\ task_status' = IF \E s \in Ids : subtasks[s].status = "Completed"
                    THEN "Completed" ELSE "Failed"
  /\ swarm_pc' = "done"
  /\ sw_hist' = [sw_hist EXCEPT !.task_completed = "true"]
  /\ UNCHANGED <<agent_vars, hist, other_vars, subtasks, batch>>

\* agent_swarm.rs:336-359  critic review, then the task's final status and
\* the TaskCompleted event, which is sent with success: true
finish_task ==
  /\ swarm_pc = "critic"
  /\ task_status' = IF \A s \in Ids : subtasks[s].status = "Completed"
                    THEN "Completed" ELSE "Failed"
  /\ swarm_pc' = "done"
  /\ sw_hist' = [sw_hist EXCEPT !.task_completed = "true"]
  /\ UNCHANGED <<agent_vars, hist, other_vars, subtasks, batch>>

AgentNext ==
  \/ run_agent \/ stop_agent \/ run_start \/ set_running \/ init_computer
  \/ connect_browser \/ loop_head \/ llm_call \/ dispatch_block \/ complete_call
  \/ after_blocks \/ run_exit \/ submit_task \/ swarm_poll

SwarmNext ==
  \/ plan_task \/ execute_task \/ start_subtask \/ finish_subtask \/ finish_task

Next == AgentNext \/ SwarmNext

Spec == Init /\ [][Next]_vars

\* process_task is a spawned tokio task (agent_swarm.rs:315-320): while it
\* has a step to take it takes one
FairSpec == Spec /\ WF_vars(SwarmNext)

\* ============================================================ BrowserClient
\* A uid is the text "{snapshot_id}_{node_index}"; here it is the sequence of
\* its parts after split('_').  A part that does not parse as u64 is -1.
Uids ==
  {<<sn, i>> : sn \in (-1)..MaxSnapshots, i \in 1..(MaxNodes + 1)} \cup {<<1>>, <<1, 1, 1>>}

\* browser.rs:804-826  the error, or "ok" when the uid maps to a node
get_backend_node_id(uid) ==
  IF Len(uid) # 2 THEN "invalid_format"
  ELSE IF uid[1] < 0 THEN "invalid_snapshot"
  ELSE IF uid[1] # snapshot_id THEN "stale"
  ELSE IF uid \notin uid_to_backend_node THEN "not_found"
  ELSE "ok"

\* The operations return what they returned (result) and the number of
\* commands they sent to the page (sent).  page_ok says whether the page
\* answers GetBoxModel / ResolveNode for the element; input events succeed.
OpResult(result, sent) == [result |-> result, sent |-> sent]

\* browser.rs:829-851
resolve_uid_to_point(uid, page_ok) ==
  LET r == get_backend_node_id(uid) IN
  IF r # "ok" THEN OpResult(r, 0)
  ELSE IF ~page_ok THEN OpResult("page_err", 1)
  ELSE OpResult("ok", 1)

\* browser.rs:160-208  mouse moved, pressed, released
click(uid, page_ok) ==
  LET p == resolve_uid_to_point(uid, page_ok) IN
  IF p.result # "ok" THEN p ELSE OpResult("ok", p.sent + 3)

\* browser.rs:211-226
hover(uid, page_ok) ==
  LET p == resolve_uid_to_point(uid, page_ok) IN
  IF p.result # "ok" THEN p ELSE OpResult("ok", p.sent + 1)

\* browser.rs:229-267  click, select all, one key event per character
fill(uid, value_len, page_ok) ==
  LET c == click(uid, page_ok) IN
  IF c.result # "ok" THEN c ELSE OpResult("ok", c.sent + 2 + value_len)

\* browser.rs:433-474
upload_file(uid, page_ok) ==
  LET r == get_backend_node_id(uid) IN
  IF r # "ok" THEN OpResult(r, 0)
  ELSE IF ~page_ok THEN OpResult("page_err", 1)
  ELSE OpResult("ok", 2)

\* browser.rs:711-755
drag(from_uid, to_uid, page_ok) ==
  LET f == resolve_uid_to_point(from_uid, page_ok) IN
  IF f.result # "ok" THEN f
  ELSE LET t == resolve_uid_to_point(to_uid, page_ok) IN
       IF t.result # "ok" THEN OpResult(t.result, f.sent + t.sent)
       ELSE OpResult("ok", f.sent + t.sent + 3)

\* history: the operation was handed a uid of another snapshot, every other
\* uid handed to it maps to a node, and the page answers
StaleArg(uids, page_ok) ==
  /\ page_ok
  /\ \E i \in 1..Len(uids) : get_backend_node_id(uids[i]) = "stale"
  /\ \A i \in 1..Len(uids) : get_backend_node_id(uids[i]) \in {"stale", "ok"}

\* the operation returns: what the caller and the page have seen of it
Returns(op, r, stale_arg) ==
  /\ page_commands' = r.sent
  /\ browser_last' = [op |-> op, result |-> r.result, stale_arg |-> stale_arg]
  /\ UNCHANGED <<snapshot_id, uid_to_backend_node, filling>>

\* browser.rs:135-157  the a11y tree is fetched; on success the snapshot id
\* is incremented and the uid map rebuilt
take_snapshot ==
  /\ ~filling.active
  /\ snapshot_id < MaxSnapshots
  /\ UNCHANGED filling
  /\ page_commands' = 1
  /\ \/ /\ browser_last' = [op |-> "take_snapshot", result |-> "page_err", stale_arg |-> FALSE]
        /\ UNCHANGED <<snapshot_id, uid_to_backend_node>>
     \/ \E n \in 0..MaxNodes :
          /\ snapshot_id' = snapshot_id + 1
          /\ uid_to_backend_node' = {<<snapshot_id', i>> : i \in 1..n}
          /\ browser_last' = [op |-> "take_snapshot", result |-> "ok", stale_arg |-> FALSE]
  /\ UNCHANGED <<agent_vars, hist, swarm_vars, rate_vars, pure_vars, poll_elapsed, request, skill_run>>

tool_click ==
  /\ ~filling.active
  /\ \E uid \in Uids, page_ok \in BOOLEAN :
       Returns("click", click(uid, page_ok), StaleArg(<<uid>>, page_ok))
  /\ UNCHANGED <<agent_vars, hist, swarm_vars, rate_vars, pure_vars, poll_elapsed, request, skill_run>>

tool_hover ==
  /\ ~filling.active
  /\ \E uid \in Uids, page_ok \in BOOLEAN :
       Returns("hover", hover(uid, page_ok), StaleArg(<<uid>>, page_ok))
  /\ UNCHANGED <<agent_vars, hist, swarm_vars, rate_vars, pure_vars, poll_elapsed, request, skill_run>>

tool_fill ==
  /\ ~filling.active
  /\ \E uid \in Uids, value_len \in 0..MaxValueLen, page_ok \in BOOLEAN :
       Returns("fill", fill(uid, value_len, page_ok), StaleArg(<<uid>>, page_ok))
  /\ UNCHANGED <<agent_vars, hist, swarm_vars, rate_vars, pure_vars, poll_elapsed, request, skill_run>>

tool_upload_file ==
  /\ ~filling.active
  /\ \E uid \in Uids, page_ok \in BOOLEAN :
       Returns("upload_file", upload_file(uid, page_ok), StaleArg(<<uid>>, page_ok))
  /\ UNCHANGED <<agent_vars, hist, swarm_vars, rate_vars, pure_vars, poll_elapsed, request, skill_run>>

tool_drag ==
  /\ ~filling.active
  /\ \E from_uid \in Uids, to_uid \in Uids, page_ok \in BOOLEAN :
       Returns("drag", drag(from_uid, to_uid, page_ok),
               StaleArg(<<from_uid, to_uid>>, page_ok))
  /\ UNCHANGED <<agent_vars, hist, swarm_vars, rate_vars, pure_vars, poll_elapsed, request, skill_run>>

\* browser.rs:758-759  fill_form is called: filled = 0.  The client is behind
\* a mutex and the call holds it, so no other operation runs until it returns.
tool_fill_form ==
  /\ ~filling.active
  /\ filling' = [NotFilling EXCEPT !.active = TRUE]
  /\ page_commands' = 0
  /\ browser_last' = [op |-> "fill_form", result |-> "none", stale_arg |-> FALSE]
  /\ UNCHANGED <<snapshot_id, uid_to_backend_node, agent_vars, hist, swarm_vars, rate_vars, pure_vars, poll_elapsed, request, skill_run>>

\* browser.rs:760-764  one iteration of the loop over the elements (an
\* element is read only when its turn comes, so it is drawn here), or the
\* end of the list
fill_form_next ==
  /\ filling.active
  /\ \/ \* the list is exhausted: Ok("Filled {filled} form elements")
        /\ browser_last' = [browser_last EXCEPT
              !.result = "ok",
              !.stale_arg = filling.seen_stale /\ ~filling.seen_other]
        /\ filling' = [filling EXCEPT !.active = FALSE]
        /\ UNCHANGED page_commands
     \/ /\ filling.filled < MaxElements
        /\ \E uid \in Uids, value_len \in 0..MaxValueLen, page_ok \in BOOLEAN :
             LET f == fill(uid, value_len, page_ok)
                 stale == get_backend_node_id(uid) = "stale"
                 other == get_backend_node_id(uid) \notin {"stale", "ok"} \/ ~page_ok
             IN /\ page_commands' = page_commands + f.sent
                /\ IF f.result # "ok"
                   THEN \* self.fill(uid, value).await? returns the error
                        /\ browser_last' = [browser_last EXCEPT
                              !.result = f.result,
                              !.stale_arg = (filling.seen_stale \/ stale)
                                            /\ ~(filling.seen_other \/ other)]
                        /\ filling' = [filling EXCEPT !.active = FALSE]
                   ELSE /\ filling' = [filling EXCEPT !.filled = @ + 1]
                        /\ UNCHANGED browser_last
  /\ UNCHANGED <<snapshot_id, uid_to_backend_node, agent_vars, hist, swarm_vars, rate_vars, pure_vars, poll_elapsed, request, skill_run>>

BrowserNext ==
  \/ take_snapshot \/ tool_click \/ tool_hover \/ tool_fill \/ tool_upload_file
  \/ tool_drag \/ tool_fill_form \/ fill_form_next

SpecBrowser == Init /\ [][BrowserNext]_vars

\* ============================================================== RateLimiter
\* rate_limiter.rs:95-107  (tpm as f32 * SAFETY_MARGIN) as u32; the product is
\* a whole number for the four constants, and f32 rounds it to that number
get_limits(t) ==
  IF t = "Build"
  THEN <<(BUILD_TIER_INPUT_TPM * SAFETY_MARGIN) \div 100,
         (BUILD_TIER_OUTPUT_TPM * SAFETY_MARGIN) \div 100>>
  ELSE <<(SCALE_TIER_INPUT_TPM * SAFETY_MARGIN) \div 100,
         (SCALE_TIER_OUTPUT_TPM * SAFETY_MARGIN) \div 100>>

TokenBucketEntry(t, usage) ==
  [timestamp |-> t, input_tokens |-> usage[1], output_tokens |-> usage[2]]

\* the <<total_input(), output_tokens>> of the usages recorded in the model:
\* amounts whose sums miss 95% of the Build input limit by one token (72199),
\* reach it (72200), and reach 100% of the input limit (76000), 95% of the
\* output limit (14440) and 100% of it (15200)
Usages == {<<72199, 0>>, <<1, 0>>, <<3801, 760>>, <<0, 14440>>}

RECURSIVE clean_old_entries(_, _)
\* rate_limiter.rs:132-139  pop_front while the front is older than the cutoff
clean_old_entries(history, cutoff) ==
  IF history # <<>> /\ Head(history).timestamp < cutoff
  THEN clean_old_entries(Tail(history), cutoff)
  ELSE history

RECURSIVE get_current_usage_gt(_, _)
\* get_current_usage with > in place of >= in the filter
get_current_usage_gt(history, t) ==
  IF history = <<>> THEN <<0, 0>>
  ELSE LET rest == get_current_usage_gt(Tail(history), t)
           e == Head(history)
       IN IF e.timestamp > t - WINDOW_SECS
          THEN <<e.input_tokens + rest[1], e.output_tokens + rest[2]>>
          ELSE rest

RECURSIVE get_current_usage(_, _)
\* rate_limiter.rs:148-165  the sums over the entries with timestamp >= cutoff
\* (the sums are u32; the amounts of the model stay far below 2^32)
get_current_usage(history, t) ==
  IF history = <<>> THEN <<0, 0>>
  ELSE LET rest == get_current_usage(Tail(history), t)
           e == Head(history)
       IN IF e.timestamp >= t - WINDOW_SECS
          THEN <<e.input_tokens + rest[1], e.output_tokens + rest[2]>>
          ELSE rest

\* update_status with > in place of >=
update_status_gt(current, limits) ==
  IF current[1] > limits[1] \/ current[2] > limits[2] THEN "Limited"
  ELSE IF \/ current[1] * 100 > SAFETY_MARGIN * limits[1]
          \/ current[2] * 100 > SAFETY_MARGIN * limits[2]
       THEN "Throttle"
       ELSE "Safe"

\* rate_limiter.rs:168-191  ratio = current as f32 / limit as f32, compared
\* with 1.0 and with 0.95.  current / limit >= 0.95 is decided exactly by
\* f32 for these limits: 0.95 * limit is a whole number and the next smaller
\* usage gives a ratio more than one f32 step below 0.95.
update_status(current, limits) ==
  IF current[1] >= limits[1] \/ current[2] >= limits[2] THEN "Limited"
  ELSE IF \/ current[1] * 100 >= SAFETY_MARGIN * limits[1]
          \/ current[2] * 100 >= SAFETY_MARGIN * limits[2]
       THEN "Throttle"
       ELSE "Safe"

\* the positions of the entries of the window, in iteration order
InWindow(history, t) ==
  {i \in 1..Len(history) : history[i].timestamp >= t - WINDOW_SECS}

\* rate_limiter.rs:199-218
get_wait_time(history, t) ==
  IF InWindow(history, t) = {} THEN 0
  ELSE LET oldest == history[CHOOSE i \in InWindow(history, t) :
                                \A j \in InWindow(history, t) : i <= j]
       IN IF oldest.timestamp + WINDOW_SECS > t
          THEN oldest.timestamp + WINDOW_SECS - t
          ELSE 0

Max(a, b) == IF a >= b THEN a ELSE b

\* the clock advances
rl_tick ==
  /\ now < MaxTicks * TickSecs
  /\ now' = now + TickSecs
  /\ UNCHANGED <<token_history, tier, status, totals, retry_state, pending,
                 recorded, rl_ret, ewr>>
  /\ UNCHANGED <<agent_vars, hist, swarm_vars, browser_vars, pure_vars, poll_elapsed, request, skill_run>>

\* rate_limiter.rs:110-113
set_tier ==
  /\ \E t \in {"Build", "Scale"} : tier' = t
  /\ rl_ret' = [op |-> "set_tier", at |-> now, value |-> <<0, 0>>]
  /\ UNCHANGED <<now, token_history, status, totals, retry_state, pending, recorded, ewr>>
  /\ UNCHANGED <<agent_vars, hist, swarm_vars, browser_vars, pure_vars, poll_elapsed, request, skill_run>>

\* rate_limiter.rs:117-121  a record_usage call builds its entry with
\* Instant::now() and then waits for the history lock
record_usage_entry ==
  /\ Len(recorded) + Cardinality(pending) < MaxRecords
  /\ \E usage \in Usages : pending' = pending \cup {TokenBucketEntry(now, usage)}
  /\ UNCHANGED <<now, token_history, tier, status, totals, retry_state,
                 recorded, rl_ret, ewr>>
  /\ UNCHANGED <<agent_vars, hist, swarm_vars, browser_vars, pure_vars, poll_elapsed, request, skill_run>>

\* rate_limiter.rs:123-144  with the lock: push, totals, clean, update_status
record_usage ==
  /\ \E entry \in pending :
       /\ pending' = pending \ {entry}
       /\ token_history' = clean_old_entries(Append(token_history, entry), now - WINDOW_SECS)
       /\ totals' = <<totals[1] + entry.input_tokens, totals[2] + entry.output_tokens>>
       /\ recorded' = Append(recorded, entry)
  /\ status' = update_status(get_current_usage(token_history', now), get_limits(tier))
  /\ rl_ret' = [op |-> "record_usage", at |-> now, value |-> <<0, 0>>]
  /\ UNCHANGED <<now, tier, retry_state, ewr>>
  /\ UNCHANGED <<agent_vars, hist, swarm_vars, browser_vars, pure_vars, poll_elapsed, request, skill_run>>

\* a caller reads the usage of the window
read_current_usage ==
  /\ rl_ret' = [op |-> "get_current_usage", at |-> now,
                value |-> get_current_usage(token_history, now)]
  /\ UNCHANGED <<now, token_history, tier, status, totals, retry_state, pending,
                 recorded, ewr>>
  /\ UNCHANGED <<agent_vars, hist, swarm_vars, browser_vars, pure_vars, poll_elapsed, request, skill_run>>

\* rate_limiter.rs:221-241  how long throttle_if_needed sleeps
throttle_wait(st, history, t) ==
  IF st = "Safe" THEN 0
  ELSE IF st = "Throttle" THEN get_wait_time(history, t)
  ELSE Max(get_wait_time(history, t), LIMITED_MIN_WAIT_SECS)

\* the give-up test with > in place of >=
gives_up_gt(is_rate_limit, attempt) == ~is_rate_limit \/ attempt > RL_MAX_RETRIES

\* the give-up test without its first disjunct: every error is retried
gives_up_last_only(is_rate_limit, attempt) == attempt >= RL_MAX_RETRIES

\* rate_limiter.rs:316  !is_rate_limit || attempt >= MAX_RETRIES
gives_up(is_rate_limit, attempt) == ~is_rate_limit \/ attempt >= RL_MAX_RETRIES

\* rate_limiter.rs:304, 244-257  begin_retry_attempt, then the first attempt
execute_with_retry ==
  /\ ewr.pc \in {"idle", "returned"}
  /\ retry_state' = 1
  /\ ewr' = [EwrIdle EXCEPT !.pc = "throttle", !.attempt = 1]
  /\ UNCHANGED <<now, token_history, tier, status, totals, pending, recorded, rl_ret>>
  /\ UNCHANGED <<agent_vars, hist, swarm_vars, browser_vars, pure_vars, poll_elapsed, request, skill_run>>

\* rate_limiter.rs:306-308  throttle_if_needed reads the status and sleeps
throttle_if_needed ==
  /\ ewr.pc = "throttle"
  /\ LET wait == throttle_wait(status, token_history, now) IN
       ewr' = [ewr EXCEPT !.pc = IF wait > 0 THEN "sleep" ELSE "operation",
                          !.wake_at = IF wait > 0 THEN now + wait ELSE 0]
  /\ UNCHANGED <<now, token_history, tier, status, totals, retry_state, pending,
                 recorded, rl_ret>>
  /\ UNCHANGED <<agent_vars, hist, swarm_vars, browser_vars, pure_vars, poll_elapsed, request, skill_run>>

\* the sleep of throttle_if_needed has elapsed
throttle_elapsed ==
  /\ ewr.pc = "sleep"
  /\ now >= ewr.wake_at
  /\ ewr' = [ewr EXCEPT !.pc = "operation", !.wake_at = 0]
  /\ UNCHANGED <<now, token_history, tier, status, totals, retry_state, pending,
                 recorded, rl_ret>>
  /\ UNCHANGED <<agent_vars, hist, swarm_vars, browser_vars, pure_vars, poll_elapsed, request, skill_run>>

\* rate_limiter.rs:309-333  operation(attempt) returns
operation_returns ==
  /\ ewr.pc = "operation"
  /\ \E outcome \in {"ok", "rate_limit", "other"} :
       IF outcome = "ok"
       THEN /\ retry_state' = 0
            /\ ewr' = [ewr EXCEPT !.pc = "returned", !.ret = "ok",
                                  !.invocations = @ + 1]
       ELSE IF gives_up(outcome = "rate_limit", ewr.attempt)
       THEN /\ retry_state' = 0
            /\ ewr' = [ewr EXCEPT !.pc = "returned", !.ret = "err",
                                  !.invocations = @ + 1,
                                  !.only_rate_limit = @ /\ outcome = "rate_limit"]
       ELSE \* update_retry_state, then the backoff sleep
            /\ retry_state' = IF retry_state = 0 THEN 0 ELSE retry_state + 1
            /\ ewr' = [ewr EXCEPT !.pc = "backoff", !.invocations = @ + 1,
                                  !.only_rate_limit = @ /\ outcome = "rate_limit"]
  /\ UNCHANGED <<now, token_history, tier, status, totals, pending, recorded, rl_ret>>
  /\ UNCHANGED <<agent_vars, hist, swarm_vars, browser_vars, pure_vars, poll_elapsed, request, skill_run>>

\* rate_limiter.rs:329, 305, 336-338  the backoff sleep has elapsed: the next
\* attempt of for attempt in 1..=MAX_RETRIES, or the end of the loop
backoff_elapsed ==
  /\ ewr.pc = "backoff"
  /\ IF ewr.attempt + 1 <= RL_MAX_RETRIES
     THEN /\ ewr' = [ewr EXCEPT !.pc = "throttle", !.attempt = @ + 1, !.backoffs = @ + 1]
          /\ UNCHANGED retry_state
     ELSE /\ retry_state' = 0
          /\ ewr' = [ewr EXCEPT !.pc = "returned", !.ret = "err", !.backoffs = @ + 1]
  /\ UNCHANGED <<now, token_history, tier, status, totals, pending, recorded, rl_ret>>
  /\ UNCHANGED <<agent_vars, hist, swarm_vars, browser_vars, pure_vars, poll_elapsed, request, skill_run>>

\* the callers of the accounting half of the limiter
RateNext ==
  \/ rl_tick \/ set_tier \/ record_usage_entry \/ record_usage \/ read_current_usage

SpecRate == Init /\ [][RateNext]_vars

\* a caller of execute_with_retry, while usages are recorded and time passes
RetryNext ==
  \/ rl_tick \/ record_usage_entry \/ record_usage
  \/ execute_with_retry \/ throttle_if_needed \/ throttle_elapsed
  \/ operation_returns \/ backoff_elapsed

SpecRetry == Init /\ [][RetryNext]_vars

\* ====================================================== snapshot compaction
\* A text is the sequence of its lines.  A line of a snapshot is
\* "uid=1_2 button ..." (at the start of the line or indented), with a role
\* that is interactive or not; the header line is what summarize_snapshot
\* writes.  kept and total are the numbers printed in a header.
ElementLine(kind) == [kind |-> kind, kept |-> 0, total |-> 0]
HeaderLine(kept, total) == [kind |-> "header", kept |-> kept, total |-> total]

\* "uid=1_1 button", "uid=1_2 StaticText", "  uid=1_3 link", "  uid=1_4 generic"
LineKinds == {"uid_role", "uid_plain", "indented_role", "indented_plain"}

\* a message with one block: a Text block, or a ToolResult whose content is
\* one Text or one Image item
SnapMessage(role, block, item, text) ==
  [role |-> role, block |-> block, item |-> item, text |-> text]

BlockShapes == {<<"text", "text">>, <<"tool_result", "text">>, <<"tool_result", "image">>}

\* agent.rs:1553-1558  the line contains " {role} ", " {role} \"" or ends with
\* " {role}" for an interactive role; no word of the header is such a role
should_keep(line) == line.kind \in {"uid_role", "indented_role"}

RECURSIVE KeptLines(_)
KeptLines(text) ==
  IF text = <<>> THEN <<>>
  ELSE IF should_keep(Head(text)) THEN <<Head(text)>> \o KeptLines(Tail(text))
       ELSE KeptLines(Tail(text))

\* agent.rs:1535-1571  the header with the counts, then the kept lines
summarize_snapshot(snapshot) ==
  <<HeaderLine(Len(KeptLines(snapshot)), Len(snapshot))>> \o KeptLines(snapshot)

\* the test of a snapshot without starts_with("uid=")
is_snapshot_any_long(text) == Len(text) > MinSnapshotLen

\* agent.rs:1525  text.starts_with("uid=") && text.len() > 5000
is_snapshot(text) ==
  /\ text # <<>>
  /\ Head(text).kind \in {"uid_role", "uid_plain"}
  /\ Len(text) > MinSnapshotLen

\* agent.rs:1514-1533  the Text items of the ToolResult blocks of the user
\* messages
summarize_old_snapshots(msgs) ==
  [i \in 1..Len(msgs) |->
     IF /\ msgs[i].role = "user"
        /\ msgs[i].block = "tool_result"
        /\ msgs[i].item = "text"
        /\ is_snapshot(msgs[i].text)
     THEN [msgs[i] EXCEPT !.text = summarize_snapshot(@)]
     ELSE msgs[i]]

\* a message enters the list (its text is given line by line)
snap_push_message ==
  /\ snap_hist.applied = 0
  /\ Len(snap_messages) < MaxMessages
  /\ \E role \in {"user", "assistant"}, shape \in BlockShapes :
       snap_messages' = Append(snap_messages, SnapMessage(role, shape[1], shape[2], <<>>))
  /\ UNCHANGED <<snap_hist, learn_vars, agent_vars, hist, swarm_vars, browser_vars, rate_vars, poll_elapsed, request, skill_run>>

snap_push_line ==
  /\ snap_hist.applied = 0
  /\ snap_messages # <<>>
  /\ LET last == Len(snap_messages) IN
       /\ snap_messages[last].item = "text"
       /\ Len(snap_messages[last].text) < MaxLines
       /\ \E kind \in LineKinds :
            snap_messages' = [snap_messages EXCEPT ![last].text = Append(@, ElementLine(kind))]
  /\ UNCHANGED <<snap_hist, learn_vars, agent_vars, hist, swarm_vars, browser_vars, rate_vars, poll_elapsed, request, skill_run>>

\* agent.rs:1177-1179  summarize_old_snapshots(&mut messages)
compact_snapshots ==
  /\ snap_hist.applied < 2
  /\ snap_messages' = summarize_old_snapshots(snap_messages)
  /\ snap_hist' = [applied |-> snap_hist.applied + 1,
                   original |-> IF snap_hist.applied = 0 THEN snap_messages
                                ELSE snap_hist.original,
                   after_first |-> IF snap_hist.applied = 0 THEN snap_messages'
                                   ELSE snap_hist.after_first]
  /\ UNCHANGED <<learn_vars, agent_vars, hist, swarm_vars, browser_vars, rate_vars, poll_elapsed, request, skill_run>>

SnapNext == snap_push_message \/ snap_push_line \/ compact_snapshots

SpecSnap == Init /\ [][SnapNext]_vars

\* ==================================================== memories and skills
\* memory.rs:241-256  store_execution
Memory(success) ==
  [success_rate |-> IF success THEN RateOne ELSE 0, usage_count |-> 1]

\* the exponential moving average rate * (1 - alpha) + new_success * alpha,
\* alpha in tenths
Ema(rate, success, alpha) ==
  (rate * (10 - alpha) + (IF success THEN RateOne ELSE 0) * alpha) \div 10

\* the update of a memory with the learning rate of the skills
updated_memory_skill_alpha(memory, success) ==
  [success_rate |-> Ema(memory.success_rate, success, SKILL_ALPHA),
   usage_count |-> memory.usage_count + 1]

\* memory.rs:391-396  what update_memory_success does to the memory it finds
updated_memory(memory, success) ==
  [success_rate |-> Ema(memory.success_rate, success, MEMORY_ALPHA),
   usage_count |-> memory.usage_count + 1]

\* skills.rs:440-445  what update_existing_skill does to the skill it finds
updated_skill(skill, success) ==
  Skill(Ema(skill.success_rate, success, SKILL_ALPHA), skill.total_uses + 1)

\* memory.rs:241-280
store_execution ==
  /\ Len(memories) < MaxMemories
  /\ \E success \in BOOLEAN :
       /\ memories' = Append(memories, Memory(success))
       /\ mem_hist' = Append(mem_hist, [stored |-> success, reuses |-> <<>>])
  /\ UNCHANGED <<skills, snap_messages, snap_hist, agent_vars, hist, swarm_vars,
                 browser_vars, rate_vars, poll_elapsed, request, skill_run>>

\* memory.rs:389-405  memory_id 0 is the id of no memory
update_memory_success ==
  /\ \E memory_id \in 0..Len(memories), success \in BOOLEAN :
       IF memory_id = 0
       THEN UNCHANGED <<memories, mem_hist>>
       ELSE /\ Len(mem_hist[memory_id].reuses) < MaxUpdates
            /\ memories' = [memories EXCEPT ![memory_id] = updated_memory(@, success)]
            /\ mem_hist' = [mem_hist EXCEPT ![memory_id].reuses = Append(@, success)]
  /\ UNCHANGED <<skills, snap_messages, snap_hist, agent_vars, hist, swarm_vars,
                 browser_vars, rate_vars, poll_elapsed, request, skill_run>>

\* skills.rs:402-435  with update_existing_skill (437-460) and add_skill:
\* existing is the first learned skill with a keyword in the description
\* (0: none), added says that the candidate is valid and was persisted
learn_from_execution ==
  /\ \E success \in BOOLEAN, existing \in 0..Len(skills.learned), added \in BOOLEAN :
       IF ~success THEN UNCHANGED skills
       ELSE IF existing > 0
       THEN /\ skills.learned[existing].total_uses <= MaxUpdates
            /\ skills' = [skills EXCEPT !.learned[existing] = updated_skill(@, success)]
       ELSE IF added /\ Len(skills.learned) < MaxLearned
       THEN \* candidate_to_skill: success_rate 0.8, total_uses 1
            skills' = [skills EXCEPT !.learned = Append(@, Skill((8 * RateOne) \div 10, 1))]
       ELSE UNCHANGED skills
  /\ UNCHANGED <<memories, mem_hist, snap_messages, snap_hist, agent_vars, hist,
                 swarm_vars, browser_vars, rate_vars, poll_elapsed, request, skill_run>>

LearnNext == store_execution \/ update_memory_success \/ learn_from_execution

SpecLearn == Init /\ [][LearnNext]_vars

\* =================================================================== claims
Assistant(i) == messages[i].role = "assistant" /\ ToolUseIds(messages[i]) # <<>>

\* C1: every assistant turn with N >= 1 ToolUse blocks is followed by a user
\* turn holding exactly N ToolResult blocks with the same ids in the same
\* order, and that turn is in place when the next assistant turn is requested.
C1_ToolResultCompleteness ==
  \A i \in 1..Len(messages) :
     Assistant(i) =>
        /\ i < Len(messages) =>
              /\ messages[i + 1].role = "user"
              /\ ToolResultIds(messages[i + 1]) = ToolUseIds(messages[i])
        /\ i = Len(messages) => pc # "llm_call"

\* the ids of the ToolUse blocks of the turn being dispatched that have no
\* result among tool_results
Outstanding ==
  {response_content[i].id : i \in {j \in 1..Len(response_content) :
       /\ response_content[j].type = "tool_use"
       /\ \A k \in 1..Len(tool_results) : tool_results[k].id # response_content[j].id}}

HasStoppedResult(id) ==
  \E i \in 1..Len(messages) : \E k \in 1..Len(messages[i].content) :
     messages[i].content[k] = ToolResult(id, "stopped")

\* C2: when stop was requested while the ToolUse blocks of a turn were being
\* dispatched, every ToolUse of the turn without a result has a synthetic
\* "stopped" ToolResult in the message history when run has returned Ok.
C2_StoppedResultForOutstanding ==
  (pc = "returned" /\ ret = "ok" /\ hist.stop_in_dispatch) =>
     \A id \in Outstanding : HasStoppedResult(id)

\* C3: once a stop request has cleared the running flag, the single-agent
\* loop starts no new Actuator call.
C3_NoActuatorCallStartsAfterStop ==
  [][(hist.stop_requested /\ in_flight = "none") => in_flight' = "none"]_vars

\* C4: after a stop requested while the swarm executes the submitted task, no
\* subtask enters Executing.
C4_NoSubtaskStartsAfterStop ==
  [][hist.stop_in_swarm =>
       \A s \in Ids : subtasks[s].status # "Executing" => subtasks'[s].status # "Executing"]_vars

\* C5: whenever run has returned after setting running to true, the running
\* flag is false.
C5_RunningClearedOnReturn ==
  (pc = "returned" /\ hist.set_running) => ~running

\* C6: once the task is submitted to the swarm, run only polls and returns:
\* the agent loop requests no assistant turn and dispatches no tool.
C6_SwarmExcludesLoop ==
  hist.submitted =>
     /\ pc \in {"swarm_poll", "returned"}
     /\ ~hist.llm_called
     /\ ~hist.dispatched
     /\ messages = <<>>

C6_Witness == hist.submitted /\ hist.stop_requested /\ pc = "returned" /\ ret = "ok"

\* C7: a subtask is Executing only while every id in its dependencies is the
\* id of a Completed subtask (Completed is never left, so this is the
\* condition under which it entered Executing).
C7_ExecutingOnlyWithDepsCompleted ==
  \A s \in Ids : subtasks[s].status = "Executing" => AllDepsCompleted(subtasks, s)

C7_Witness ==
  \E s \in Ids : subtasks[s].status = "Executing" /\ subtasks[s].dependencies # {}

C9_FailedAtMaxRetriesFailures ==
  \A s \in Ids :
     LET K == sw_hist.failures[s] IN
       /\ K < subtasks[s].max_retries => sw_hist.requeues[s] = K
       /\ K = subtasks[s].max_retries => subtasks[s].status = "Failed"

\* C9 amended: after K <= max_retries failures the subtask was re-queued K
\* times and is not Failed; it is Failed exactly from failure number
\* max_retries + 1 on, after max_retries re-queues.
C9_FailedAfterMaxRetriesRetries ==
  \A s \in Ids :
     LET K == sw_hist.failures[s] IN
       /\ K <= subtasks[s].max_retries =>
             sw_hist.requeues[s] = K /\ subtasks[s].status # "Failed"
       /\ K > subtasks[s].max_retries =>
             /\ K = subtasks[s].max_retries + 1
             /\ sw_hist.requeues[s] = subtasks[s].max_retries
             /\ subtasks[s].status = "Failed"

C9_Witness ==
  \E s \in Ids :
     /\ subtasks[s].status = "Failed"
     /\ sw_hist.failures[s] = subtasks[s].max_retries + 1

\* C10: every subtask has retry_count <= max_retries.
C10_RetryCountBounded ==
  \A s \in Ids : subtasks[s].retry_count <= subtasks[s].max_retries

\* the last retry the counter allows is running
C10_Witness ==
  \E s \in Ids :
     /\ subtasks[s].status = "Executing"
     /\ subtasks[s].retry_count = subtasks[s].max_retries

\* C11: when process_task has ended, the task status is Completed if every
\* subtask is Completed and Failed otherwise.
C11_TaskStatusIffAllCompleted ==
  swarm_pc = "done" =>
     task_status = IF \A s \in Ids : subtasks[s].status = "Completed"
                   THEN "Completed" ELSE "Failed"

\* a task that ended Failed although some of its subtasks are Completed
C11_Witness ==
  /\ swarm_pc = "done"
  /\ task_status = "Failed"
  /\ \E s \in Ids : subtasks[s].status = "Completed"
  /\ \E s \in Ids : subtasks[s].status = "Failed"

\* C12: the end of an Actuator call during tool dispatch, a failure included,
\* never makes run return an error.
C12_ActuatorFailureNeverReturnsErr ==
  [][pc = "in_flight" => ret' # "err"]_vars

\* C13: every ToolUse block the dispatcher moves past without calling an
\* Actuator (its input does not have the shape the tool expects, or its tool
\* needs none) adds a ToolResult for that ToolUse id.
C13_ParseFailureAddsToolResult ==
  [][(/\ pc = "dispatch"
      /\ block_idx <= Len(response_content)
      /\ block_idx' = block_idx + 1
      /\ response_content[block_idx].type = "tool_use")
     => /\ Len(tool_results') = Len(tool_results) + 1
        /\ tool_results'[Len(tool_results')].id = response_content[block_idx].id]_vars

\* C14: after the blocks of an assistant turn, a turn without ToolUse blocks
\* makes the loop emit finished and leave; a turn with a ToolUse block, the
\* running flag still set, makes it go on to the next iteration.
C14_TerminalIffNoToolUse ==
  [][(pc = "after_blocks" /\ pc' # "after_blocks") =>
       IF ToolUseIds([content |-> response_content]) = <<>>
       THEN pc' = "exit" /\ "finished" \in emitted'
       ELSE running => pc' = "loop_head"]_vars

\* the assistant messages of the history
AssistantTurns == {i \in 1..Len(messages) : messages[i].role = "assistant"}

\* C15: the loop counter never exceeds MAX_ITERATIONS; it counts the
\* assistant turns requested, so no more than MAX_ITERATIONS are received.
C15_AtMostMaxIterations ==
  /\ iteration <= MAX_ITERATIONS
  /\ Cardinality(AssistantTurns) <= iteration

\* the loop was left on the iteration limit, the last turn still asking for tools
C15_Witness ==
  /\ hist.limit_reached
  /\ iteration = MAX_ITERATIONS
  /\ Cardinality(AssistantTurns) = MAX_ITERATIONS
  /\ messages[Len(messages)].role = "user"

\* C16: a run that left the loop on the iteration limit returns Ok and has
\* emitted an event that explains that the limit was reached.
C16_IterationLimitExplained ==
  (pc = "returned" /\ hist.limit_reached) =>
     /\ ret = "ok"
     /\ "iteration_limit" \in emitted

\* C17: an element operation handed a uid of another snapshot returns the
\* stale-uid error and has sent no command to the page.
C17_StaleUidTouchesNothing ==
  browser_last.stale_arg =>
     /\ browser_last.result = "stale"
     /\ page_commands = 0

RECURSIVE SumOver(_, _)
\* the sum of f[i] over the positions i of the set
SumOver(positions, f) ==
  IF positions = {} THEN 0
  ELSE LET i == CHOOSE j \in positions : TRUE
       IN f[i] + SumOver(positions \ {i}, f)

\* the positions of the entries ever recorded that are at most 60 s old at t
Recent(t) == {i \in 1..Len(recorded) : t - recorded[i].timestamp <= 60}

\* their input and output tokens, summed
WindowSum(t) ==
  <<SumOver(Recent(t), [i \in 1..Len(recorded) |-> recorded[i].input_tokens]),
    SumOver(Recent(t), [i \in 1..Len(recorded) |-> recorded[i].output_tokens])>>

\* C18: get_current_usage returns the sums of the input and of the output
\* tokens over every entry ever recorded whose timestamp is within the 60 s
\* before the call, whatever was recorded, cleaned or read before.
C18_UsageIsWindowSum ==
  rl_ret.op = "get_current_usage" =>
     rl_ret.value = WindowSum(rl_ret.at)

\* a read after an entry has left the window while a newer one is still in it
C18_Witness ==
  /\ rl_ret.op = "get_current_usage"
  /\ \E i \in 1..Len(recorded) : recorded[i].timestamp < rl_ret.at - WINDOW_SECS
  /\ \E i \in 1..Len(recorded) : recorded[i].timestamp = rl_ret.at - WINDOW_SECS
  /\ rl_ret.value # <<0, 0>>

\* the windowed usage reaches pct percent of a limit of the active tier
Reaches(pct, t) ==
  LET usage == WindowSum(t) IN
    \/ usage[1] * 100 >= pct * get_limits(tier)[1]
    \/ usage[2] * 100 >= pct * get_limits(tier)[2]

C20_AtMostFiveAttempts ==
  /\ ewr.invocations <= RL_MAX_RETRIES
  /\ ewr.attempt <= RL_MAX_RETRIES
  /\ (ewr.pc = "returned" /\ ewr.ret = "err" /\ ewr.only_rate_limit) =>
        /\ ewr.invocations = RL_MAX_RETRIES
        /\ ewr.backoffs = RL_MAX_RETRIES - 1
        /\ retry_state = 0

C20_Witness ==
  /\ ewr.pc = "returned"
  /\ ewr.ret = "err"
  /\ ewr.only_rate_limit
  /\ ewr.invocations = RL_MAX_RETRIES

\* C21: once the operation has failed with an error that is no rate-limit
\* error, execute_with_retry has returned the error: the invocation that
\* failed was the last one, and no backoff sleep followed it.
C21_OtherErrorFailsFast ==
  ~ewr.only_rate_limit =>
     /\ ewr.pc = "returned"
     /\ ewr.ret = "err"
     /\ ewr.backoffs = ewr.invocations - 1
     /\ retry_state = 0

\* the first invocation fails with another error: one invocation, no sleep
C21_Witness ==
  /\ ~ewr.only_rate_limit
  /\ ewr.pc = "returned"
  /\ ewr.ret = "err"
  /\ ewr.invocations = 1
  /\ ewr.backoffs = 0

\* C22: snapshot compaction applied a second time leaves the message list as
\* the first application left it.
C22_CompactionIdempotent ==
  snap_hist.applied = 2 => snap_messages = snap_hist.after_first

\* applied twice to a list of which the first application dropped a line
C22_Witness ==
  /\ snap_hist.applied = 2
  /\ \E i \in 1..Len(snap_messages) :
       /\ snap_hist.after_first[i] # snap_hist.original[i]
       /\ snap_hist.after_first[i].text[1].kept < snap_hist.after_first[i].text[1].total

\* C23 as stated: a memory stored with success_rate 1.0 for which a success
\* and then a failure were recorded has success_rate 0.49.
C23_SuccessThenFailureGives049 ==
  \A m \in 1..Len(memories) :
     (mem_hist[m].stored /\ mem_hist[m].reuses = <<TRUE, FALSE>>) =>
        memories[m].success_rate * 100 = 49 * RateOne

\* C23 amended: the success leaves the rate at 1.0 and the failure takes it
\* to 0.7; 0.49 is the rate after two failures.
C23_SuccessThenFailureGives07 ==
  \A m \in 1..Len(memories) :
     /\ (mem_hist[m].stored /\ mem_hist[m].reuses = <<TRUE>>) =>
           memories[m].success_rate = RateOne
     /\ (mem_hist[m].stored /\ mem_hist[m].reuses = <<TRUE, FALSE>>) =>
           memories[m].success_rate * 10 = 7 * RateOne
     /\ (mem_hist[m].stored /\ mem_hist[m].reuses = <<FALSE, FALSE>>) =>
           memories[m].success_rate * 100 = 49 * RateOne

C23_Witness ==
  \E m \in 1..Len(memories) :
     /\ mem_hist[m].stored
     /\ mem_hist[m].reuses = <<TRUE, FALSE>>
     /\ memories[m].usage_count = 3

\* C24: the step in which the skill fast path has executed a skill with
\* success updates that skill: its success rate moves by the exponential
\* moving average with alpha = 0.2 toward the outcome, its usage count grows
\* by one, and no other skill changes.
C24_FastPathUpdatesSkill ==
  [][(pc = "start" /\ pc' = "returned" /\ ret' = "ok") =>
       \E k \in 1..Len(skills.predefined) :
          skills' = [skills EXCEPT !.predefined[k] = updated_skill(@, TRUE)]]_vars

\* C25: a run whose agent loop was left because the flag was found cleared
\* has emitted finished and stopped and has saved the Conversation when it
\* has returned.
C25_StopEmitsFinishedAndStopped ==
  (pc = "returned" /\ hist.stop_observed) =>
     /\ {"finished", "stopped"} \subseteq emitted
     /\ saved = Len(messages)

\* C26: when run has returned after a skill completed the instruction, no
\* assistant turn was requested and a Conversation of two messages is saved.
C26_SkillPathSavesTwoMessages ==
  (pc = "returned" /\ hist.skill_done) =>
     /\ ~hist.llm_called
     /\ saved = 2

\* the subtasks of the task that are Executing
ExecutingIds == {s \in Ids : subtasks[s].status = "Executing"}

C30_ChainRunsOneAtATime ==
  sw_hist.answer = IndexChain(3) =>
     /\ Cardinality(ExecutingIds) <= 1
     /\ \A s \in Ids :
          (s > 1 /\ subtasks[s].status \in {"Executing", "Completed", "Failed"})
             => subtasks[s - 1].status = "Completed"

\* C27: every task submitted to the swarm eventually has a terminal status,
\* whatever the plan and the outcomes of its subtasks.
C27_TaskEventuallyTerminal ==
  (task_status = "Pending") ~> (task_status \in {"Completed", "Failed"})

C31_CannedPlanRunsInSequence ==
  sw_hist.fallback =>
     \A s \in Ids :
        (s > 1 /\ subtasks[s].status \in {"Executing", "Completed", "Failed"})
           => subtasks[s - 1].status = "Completed"

\* C32: each dependency of a subtask of the plan is the id of a subtask
\* that comes earlier in the plan.
C32_DependenciesNameEarlierSubtasks ==
  \A s \in Ids : \A dep \in subtasks[s].dependencies :
     \E c \in Ids : c < s /\ subtasks[c].id = dep

\* C35: a subtask is Completed only if the result of its execution has
\* success = true.
C35_CompletedOnlyOnSuccess ==
  \A s \in Ids : subtasks[s].status = "Completed" => subtasks[s].result = "success"

\* C36: the TaskCompleted event sent for the task carries success = true
\* exactly if the final status of the task is Completed.
C36_TaskCompletedEventMatchesStatus ==
  sw_hist.task_completed # "none" =>
     (sw_hist.task_completed = "true" <=> task_status = "Completed")

\* C33: a request that fails with a rate-limit error is retried with the
\* message history it was first sent with, at most MAX_RETRIES times; the
\* loop ends on a rate-limit error only when MAX_RETRIES retries were made,
\* and on any API error it ends with the error event.
C33_RateLimitRetriedFiveTimes ==
  /\ retry_attempt <= MAX_RETRIES
  /\ (pc = "llm_call" /\ retry_attempt > 0) => messages = hist.sent
  /\ hist.api_error.kind = "rate_limit" => hist.api_error.retries = MAX_RETRIES
  /\ hist.api_error.kind # "none" =>
        /\ "error" \in emitted
        /\ pc \in {"exit", "returned"}
        /\ messages = hist.sent

\* the run has ended on the rate-limit error of the last retry
C33_Witness ==
  /\ pc = "returned"
  /\ hist.api_error = [kind |-> "rate_limit", retries |-> MAX_RETRIES]

\* C34: when a request for an assistant turn is made after a completed round
\* (an assistant turn and the user turn appended in response to it), the
\* saved Conversation holds every message of the history.
C34_SavedBeforeNextCall ==
  (pc = "llm_call" /\ iteration > 1) => saved = Len(messages)

\* C37: once stop_agent has cleared the flag that run had set, the flag
\* stays false.
C37_StopNeverOverwritten ==
  hist.stop_requested => ~running

\* C38: a run_agent command that arrives while run is in progress is
\* rejected: it neither waits nor is admitted.
C38_SecondRequestRejected ==
  request.during_run => request.pc = "rejected"

\* C39: once every recorded entry is older than the 60 s window, the status
\* is Safe and throttle_if_needed would not sleep.
C39_StatusSafeOnceWindowEmpty ==
  (\A i \in 1..Len(recorded) : now - recorded[i].timestamp > WINDOW_SECS) =>
     /\ status = "Safe"
     /\ throttle_wait(status, token_history, now) = 0

\* the action was executed and succeeded, directly or through its fallback
Succeeded(a) == a.primary = "ok" \/ (a.primary = "fail" /\ a.fallback = "ok")

\* C40: execute_skill reports success = true only if every action it
\* executed succeeded, directly or through its fallback.
C40_SuccessOnlyIfEveryActionSucceeded ==
  skill_run.success = "true" =>
     \A i \in 1..Len(skill_run.actions) :
        skill_run.actions[i].condition_met => Succeeded(skill_run.actions[i])

====
